---- MODULE Spec2Model ----
(***************************************************************************)
(* Model of the Malta road-condition lookups: cameras.py (speed camera     *)
(* table), roadworks.py (road closure list) and weather.py (rain queries). *)
(*                                                                         *)
(* A Python str is a sequence of characters; a character is a one-element  *)
(* TLA+ string.  The Maltese letters with diacritics are written with an   *)
(* ASCII mark after the base letter:                                       *)
(*   "C." "G." "Z." : C, G, Z with dot above      (U+010A, U+0120, U+017B) *)
(*   "H/"           : H with stroke               (U+0126)                 *)
(*   "c." "g." "z." "h/" : their lower-case forms                          *)
(***************************************************************************)
EXTENDS Integers, Sequences, FiniteSets, TLC

VARIABLES
    nIn, nOut, nPc,                    \* normaliser runs: input, outputs, position
    csv, data, camPc, camCall, camResult,   \* cameras.py
    features, closures, rwIdx, rwPc, rwCall, rwResult,  \* roadworks.py
    stations, wxPc, wxCall, wxResult   \* weather.py

normVars == <<nIn, nOut, nPc>>
camVars  == <<csv, data, camPc, camCall, camResult>>
rwVars   == <<features, closures, rwIdx, rwPc, rwCall, rwResult>>
wxVars   == <<stations, wxPc, wxCall, wxResult>>
vars     == <<normVars, camVars, rwVars, wxVars>>

----------------------------------------------------------------------------
(* Characters *)

UpperAlpha == <<"A","B","C","D","E","F","G","H","I","J","K","L","M",
                "N","O","P","Q","R","S","T","U","V","W","X","Y","Z",
                "C.","G.","H/","Z.">>
LowerAlpha == <<"a","b","c","d","e","f","g","h","i","j","k","l","m",
                "n","o","p","q","r","s","t","u","v","w","x","y","z",
                "c.","g.","h/","z.">>

Range(f) == {f[i] : i \in DOMAIN f}

\* The members of string.punctuation that the modelled names use.
punctuation == {"-", "'", ".", ","}
whitespace  == {" "}
Letters     == Range(UpperAlpha) \cup Range(LowerAlpha)
Chars       == Letters \cup punctuation \cup whitespace

\* Unicode word characters (regex \w): the letters; punctuation and blanks are not.
IsWordChar(c) == c \in Letters

UpperChar == [c \in Chars |->
                IF c \in Range(LowerAlpha)
                THEN UpperAlpha[CHOOSE i \in DOMAIN LowerAlpha : LowerAlpha[i] = c]
                ELSE c]

----------------------------------------------------------------------------
(* Python str methods *)

\* str.upper()
upper(s) == [i \in DOMAIN s |-> UpperChar[s[i]]]

\* str.maketrans(x, y): each character of x maps to the one at the same place in y.
maketrans(x, y) == [c \in Chars |->
                      IF c \in Range(x)
                      THEN <<y[CHOOSE i \in DOMAIN x : x[i] = c]>>
                      ELSE <<c>>]

\* str.maketrans('', '', z): each character of z is deleted.
maketransDel(z) == [c \in Chars |-> IF c \in z THEN <<>> ELSE <<c>>]

\* str.translate(table)
RECURSIVE translate(_, _)
translate(s, table) ==
    IF s = <<>> THEN <<>> ELSE table[Head(s)] \o translate(Tail(s), table)

\* Whether sub occurs in s at index i (1-based).
OccursAt(s, sub, i) ==
    /\ i >= 1
    /\ i + Len(sub) - 1 <= Len(s)
    /\ \A k \in 1..Len(sub) : s[i + k - 1] = sub[k]

\* `sub in s`
In(sub, s) == \E i \in 1..(Len(s) + 1) : OccursAt(s, sub, i)

\* str.replace(old, new): leftmost occurrences, not overlapping, left to right.
RECURSIVE replaceFrom(_, _, _, _)
replaceFrom(s, old, new, i) ==
    IF i > Len(s) THEN <<>>
    ELSE IF OccursAt(s, old, i)
         THEN new \o replaceFrom(s, old, new, i + Len(old))
         ELSE <<s[i]>> \o replaceFrom(s, old, new, i + 1)

replace(s, old, new) == replaceFrom(s, old, new, 1)

\* str.strip(): leading and trailing whitespace removed.
RECURSIVE lstrip(_)
lstrip(s) == IF s # <<>> /\ Head(s) \in whitespace THEN lstrip(Tail(s)) ELSE s

RECURSIVE rstrip(_)
rstrip(s) == IF s # <<>> /\ s[Len(s)] \in whitespace
             THEN rstrip(SubSeq(s, 1, Len(s) - 1)) ELSE s

strip(s) == rstrip(lstrip(s))

----------------------------------------------------------------------------
(* Regular expressions of roadworks.py *)

\* The alternatives of STREET_FIX, in the pattern's order.
STREET_FIX_words == << <<"t","r","i","q">>, <<"s","t","r","e","e","t">>,
                       <<"v","j","a","l">>, <<"a","v","e","n","u","e">>,
                       <<"r","o","a","d">> >>

\* \b at the gap before index i of s: exactly one of s[i-1], s[i] is a word character.
WordBoundary(s, i) ==
    LET before == i > 1 /\ i - 1 <= Len(s) /\ IsWordChar(s[i - 1])
        after  == i >= 1 /\ i <= Len(s) /\ IsWordChar(s[i])
    IN  before # after

\* Length of the match of STREET_FIX starting at index i of s, 0 when there is none
\* (re.IGNORECASE: letters compare by their upper-case form).
STREET_FIX_match(s, i) ==
    LET hits == {w \in DOMAIN STREET_FIX_words :
                    /\ OccursAt(upper(s), upper(STREET_FIX_words[w]), i)
                    /\ WordBoundary(s, i)
                    /\ WordBoundary(s, i + Len(STREET_FIX_words[w]))}
    IN  IF hits = {} THEN 0
        ELSE Len(STREET_FIX_words[CHOOSE w \in hits : \A v \in hits : w <= v])

\* STREET_FIX.sub('', s): every match, found left to right in s, is removed.
RECURSIVE STREET_FIX_subFrom(_, _)
STREET_FIX_subFrom(s, i) ==
    IF i > Len(s) THEN <<>>
    ELSE IF STREET_FIX_match(s, i) > 0
         THEN STREET_FIX_subFrom(s, i + STREET_FIX_match(s, i))
         ELSE <<s[i]>> \o STREET_FIX_subFrom(s, i + 1)

STREET_FIX_sub(s) == STREET_FIX_subFrom(s, 1)

\* re.sub(r'([LRSTXZ])- ', r'\1-', s, flags=re.IGNORECASE): the blank after an
\* article's hyphen is removed.
ArticleLetters == {"L", "R", "S", "T", "X", "Z"}

RECURSIVE article_subFrom(_, _)
article_subFrom(s, i) ==
    IF i > Len(s) THEN <<>>
    ELSE IF /\ i + 2 <= Len(s)
            /\ UpperChar[s[i]] \in ArticleLetters
            /\ s[i + 1] = "-"
            /\ s[i + 2] = " "
         THEN <<s[i], "-">> \o article_subFrom(s, i + 3)
         ELSE <<s[i]>> \o article_subFrom(s, i + 1)

article_sub(s) == article_subFrom(s, 1)

----------------------------------------------------------------------------
(* Normalisation: cameras.py *)

cam_MT_TABLE == maketrans(<<"C.","G.","H/","Z.","c.","g.","h/","z.">>,
                          <<"C","G","H","Z","c","g","h","z">>)

PUNCT_TABLE == maketransDel(punctuation)

\* The lambda of _load_speed_camera_data, applied to a cell of the name columns.
cam_cell_norm(x) == upper(translate(translate(x, cam_MT_TABLE), PUNCT_TABLE))

\* speed_cameras, first statement: the base normaliser on the query.
cam_query_norm(street) ==
    upper(translate(translate(street, cam_MT_TABLE), PUNCT_TABLE))

\* speed_cameras, second and third statement on an already normalised query.
cam_extra_pass(street) ==
    LET s1 == replace(street, <<" ","S","T","R","E","E","T">>, <<>>)
        s2 == replace(s1, <<"T","R","I","Q"," ">>, <<>>)
        s3 == strip(s2)
    IN  replace(s3, <<"B","Y","-","P","A","S","S">>, <<"B","Y","P","A","S","S">>)

\* Faulty variant of speed_cameras_street: the street-type words are removed as whole words
\* before the extra pass.
speed_cameras_street_words(street) ==
    cam_extra_pass(strip(STREET_FIX_sub(cam_query_norm(street))))

\* The search text speed_cameras derives from its argument.
speed_cameras_street(street) == cam_extra_pass(cam_query_norm(street))

----------------------------------------------------------------------------
(* Normalisation: roadworks.py *)

rw_MT_TABLE == maketrans(<<"C.","G.","H/","Z.">>, <<"C","G","H","Z">>)

\* parse_roadworks_data: 'locality_name'
parse_locality_name(raw) == translate(upper(raw), rw_MT_TABLE)

\* Faulty variant of parse_street_name: the Maltese letters are not folded.
parse_street_name_unfolded(raw) == upper(article_sub(raw))

\* parse_roadworks_data: 'street_name'
parse_street_name(raw) == translate(upper(article_sub(raw)), rw_MT_TABLE)

\* had_roadworks: the locality after the first statement.
rw_query_locality(locality) == translate(upper(locality), rw_MT_TABLE)

\* Faulty variant of rw_query_street: strip() is applied before the street-type words are
\* removed.
rw_query_street_strip_first(street) ==
    STREET_FIX_sub(strip(translate(upper(street), rw_MT_TABLE)))

\* had_roadworks: the street after the first two statements.
rw_query_street(street) ==
    strip(STREET_FIX_sub(translate(upper(street), rw_MT_TABLE)))

----------------------------------------------------------------------------
(* The outcome of a call: the value it returns, or the exception it raises *)

Return(v) == [return |-> v]
Raise(e)  == [raise |-> e]
Raised(x) == "raise" \in DOMAIN x

----------------------------------------------------------------------------
(* Parts of the program that are not running in a given specification *)

NormIdle == nIn = <<>> /\ nOut = <<>> /\ nPc = "idle"
CamIdle  == /\ csv = <<>> /\ data = "unbound" /\ camPc = "idle"
            /\ camCall = <<>> /\ camResult = <<>>
RwIdle   == /\ features = <<>> /\ closures = <<>> /\ rwIdx = 0 /\ rwPc = "idle"
            /\ rwCall = <<>> /\ rwResult = <<>>
WxIdle   == stations = "None" /\ wxPc = "idle" /\ wxCall = <<>> /\ wxResult = <<>>

----------------------------------------------------------------------------
(* The normalisers applied to a text, and applied again to their own output *)

MaxFrags == 4

\* Pieces the input texts are built from: the literals the code searches for,
\* a street-type word in mixed case, a blank, a hyphen and a Maltese letter.
NormFrags == { <<"T","R","I","Q">>, <<"T","R","I","Q"," ">>,
               <<" ","S","T","R","E","E","T">>, <<"R","o","a","d">>,
               <<" ">>, <<"-">>, <<"h/">> }

RECURSIVE FragStrings(_)
FragStrings(n) ==
    IF n = 0 THEN {<<>>}
    ELSE LET shorter == FragStrings(n - 1)
         IN  shorter \cup {f \o t : f \in NormFrags, t \in shorter}

NormKinds == {"cam_cell", "cam_query", "rw_locality", "rw_street", "speed_cameras"}

\* The normaliser of each kind, as the code applies it.
Normalise(kind, x) ==
    CASE kind = "cam_cell"      -> cam_cell_norm(x)
      [] kind = "cam_query"     -> cam_query_norm(x)
      [] kind = "rw_locality"   -> rw_query_locality(x)
      [] kind = "rw_street"     -> rw_query_street(x)
      [] kind = "speed_cameras" -> speed_cameras_street(x)

InitNorm ==
    /\ nIn \in FragStrings(MaxFrags)
    /\ nOut = <<>>
    /\ nPc = "start"
    /\ CamIdle /\ RwIdle /\ WxIdle

NormaliseOnce(kind) ==
    /\ nPc = "start"
    /\ nOut' = [kind |-> kind, once |-> Normalise(kind, nIn), twice |-> <<>>]
    /\ nPc' = "once"
    /\ UNCHANGED <<nIn, camVars, rwVars, wxVars>>

NormaliseAgain ==
    /\ nPc = "once"
    /\ nOut' = [nOut EXCEPT !.twice = Normalise(nOut.kind, nOut.once)]
    /\ nPc' = "twice"
    /\ UNCHANGED <<nIn, camVars, rwVars, wxVars>>

NextNorm ==
    \/ \E kind \in NormKinds : NormaliseOnce(kind)
    \/ NormaliseAgain

SpecNorm == InitNorm /\ [][NextNorm]_vars

\* C4 as stated: every normaliser, the camera lookup's extra pass included, gives
\* the same text when applied to its own output.
C4_AllIdempotent == nPc = "twice" => nOut.twice = nOut.once

\* C4 amended: the base normaliser (cameras.py) and the locality and street
\* normalisers of the closure lookup give the same text when applied to their own
\* output.
C4_BaseAndStreetIdempotent ==
    (nPc = "twice" /\ nOut.kind # "speed_cameras") => nOut.twice = nOut.once

\* C4 witness: the street normaliser of the closure lookup has removed a street-type
\* word from a text and has been applied again.
C4_Witness ==
    /\ nPc = "twice"
    /\ nOut.kind = "rw_street"
    /\ nOut.once # translate(upper(nIn), rw_MT_TABLE)
    /\ nOut.once # <<>>

----------------------------------------------------------------------------
(* cameras.py: the speed camera table *)

MaxCamRows == 2

NameCols == {"street_en", "street_mt", "street_common", "locality"}
AllCols  == NameCols \cup {"installation_year"}

CamRow(en, mt, common, loc, year) ==
    [street_en |-> en, street_mt |-> mt, street_common |-> common,
     locality |-> loc, installation_year |-> year]

\* Rows a speed-cameras.csv can hold; an empty cell is read as '' (keep_default_na=False).
CsvRowChoices ==
    { CamRow(<<"M","A","R","S","A"," ","R","O","A","D">>, <<"T","R","I","Q"," ","I","L","-","M","A","R","S","A">>, <<>>, <<"M","A","R","S","A">>, 2010),
      CamRow(<<"M","a","r","s","a"," ","A","v","e","n","u","e">>, <<>>, <<>>, <<"I","l","-","M","a","r","s","a">>, 2008),
      CamRow(<<"H","i","g","h"," ","S","t","r","e","e","t"," ","E","a","s","t">>, <<>>, <<>>, <<"H/","a","m","r","u","n">>, 2009),
      CamRow(<<"I","t","-","T","r","i","q"," ","t","a","'"," ","M","a","r","s","a">>, <<>>, <<"M","a","r","s","a">>, <<"M","a","r","s","a">>, 2011),
      CamRow(<<"M","d","i","n","a"," ","R","o","a","d">>, <<"T","r","i","q"," ","l","-","I","m","d","i","n","a">>, <<>>, <<"H/","'","A","t","t","a","r","d">>, 2010) }

\* The header of the file: complete, or lacking one column.
CsvColumnChoices ==
    { AllCols, AllCols \ {"street_mt"}, AllCols \ {"installation_year"} }

RECURSIVE SeqsUpTo(_, _)
SeqsUpTo(S, n) ==
    IF n = 0 THEN {<<>>}
    ELSE LET shorter == SeqsUpTo(S, n - 1)
         IN  shorter \cup {<<x>> \o t : x \in S, t \in {u \in shorter : Len(u) = n - 1}}

\* pd.read_csv: each row holds the cells of the file's columns.
read_csv(columns, rows) ==
    [columns |-> columns,
     rows    |-> [i \in DOMAIN rows |-> [c \in columns |-> rows[i][c]]]]

CsvChoices ==
    { read_csv(columns, rows) :
        columns \in CsvColumnChoices, rows \in SeqsUpTo(CsvRowChoices, MaxCamRows) }

\* Streets and years the lookups are asked about.
CamPlainQueries == { <<"M","a","r","s","a">>, <<"M","a","r","s","a"," ","R","o","a","d">>, <<"M","a","r","s","a"," ","A","v","e","n","u","e">>, <<"H/","a","m","r","u","n">> }
TriqPrefix   == <<"T","r","i","q"," ">>
StreetSuffix == <<" ","S","t","r","e","e","t">>
CamStreets ==
    CamPlainQueries
      \cup {TriqPrefix \o q : q \in CamPlainQueries}
      \cup {q \o StreetSuffix : q \in CamPlainQueries}
      \cup {<<"V","j","a","l"," ","M","a","r","s","a">>}
      \cup {r.street_en : r \in CsvRowChoices}
CamYears == 2007..2011

\* _load_speed_camera_data: data[cols] raises KeyError when a name column is not in
\* the file; otherwise the name cells are normalised and the other cells kept.
load_raises(file) == ~(NameCols \subseteq file.columns)

load_speed_camera_data(file) ==
    [columns |-> file.columns,
     rows    |-> [i \in DOMAIN file.rows |->
                    [c \in file.columns |->
                        IF c \in NameCols THEN cam_cell_norm(file.rows[i][c])
                        ELSE file.rows[i][c]]]]

\* Series.str.contains(pat): a regular-expression search.  pat comes out of
\* PUNCT_TABLE, which deletes every regex metacharacter, so it matches literally.
str_contains(cell, pat) == In(pat, cell)

\* speed_cameras: the index labels of the rows kept, in table order.
speed_cameras(table, street) ==
    LET s == speed_cameras_street(street)
    IN  SelectSeq([i \in DOMAIN table.rows |-> i],
                  LAMBDA i : \/ str_contains(table.rows[i].street_en, s)
                             \/ str_contains(table.rows[i].street_mt, s)
                             \/ str_contains(table.rows[i].street_common, s))

\* Faulty variant of had_speed_camera: installation_year < year.
had_speed_camera_before(table, street, year) ==
    LET d == speed_cameras(table, street)
    IN  IF "installation_year" \notin table.columns
        THEN Raise("KeyError")
        ELSE Return(\E k \in DOMAIN d : table.rows[d[k]].installation_year < year)

\* had_speed_camera: d['installation_year'] raises KeyError when the table has no
\* such column.
had_speed_camera(table, street, year) ==
    LET d == speed_cameras(table, street)
    IN  IF "installation_year" \notin table.columns
        THEN Raise("KeyError")
        ELSE Return(\E k \in DOMAIN d : table.rows[d[k]].installation_year <= year)

InitCam ==
    /\ csv \in CsvChoices
    /\ data = "unbound"
    /\ camPc = "import"
    /\ camCall = <<>>
    /\ camResult = <<>>
    /\ NormIdle /\ RwIdle /\ WxIdle

\* Module import: data = _load_speed_camera_data()
LoadSpeedCameraData ==
    /\ camPc = "import"
    /\ IF load_raises(csv)
       THEN camPc' = "import_error" /\ data' = data
       ELSE camPc' = "ready" /\ data' = load_speed_camera_data(csv)
    /\ UNCHANGED <<csv, camCall, camResult, normVars, rwVars, wxVars>>

\* A call of speed_cameras(street), up to its return.
SpeedCameras(street) ==
    /\ camPc = "ready"
    /\ camCall' = [fn |-> "speed_cameras", street |-> street]
    /\ camResult' = Return(speed_cameras(data, street))
    /\ camPc' = "returned"
    /\ UNCHANGED <<csv, data, normVars, rwVars, wxVars>>

\* A call of had_speed_camera(street, year), up to its return or its exception.
HadSpeedCamera(street, year) ==
    /\ camPc = "ready"
    /\ camCall' = [fn |-> "had_speed_camera", street |-> street, year |-> year]
    /\ camResult' = had_speed_camera(data, street, year)
    /\ camPc' = "returned"
    /\ UNCHANGED <<csv, data, normVars, rwVars, wxVars>>

\* The caller has taken the result; the module is ready for the next call.
CamReturn ==
    /\ camPc = "returned"
    /\ camPc' = "ready"
    /\ camCall' = <<>>
    /\ camResult' = <<>>
    /\ UNCHANGED <<csv, data, normVars, rwVars, wxVars>>

NextCam ==
    \/ LoadSpeedCameraData
    \/ \E street \in CamStreets : SpeedCameras(street)
    \/ \E street \in CamStreets, year \in CamYears : HadSpeedCamera(street, year)
    \/ CamReturn

SpecCam == InitCam /\ [][NextCam]_vars

----------------------------------------------------------------------------
(* Claims about the camera lookups *)

\* The index labels of the rows of table with a street column containing text.
RowsContaining(table, text) ==
    SelectSeq([i \in DOMAIN table.rows |-> i],
              LAMBDA i : \E c \in {"street_en", "street_mt", "street_common"} :
                            In(text, table.rows[i][c]))

CamReturned(fn) == camPc = "returned" /\ camCall.fn = fn

\* C2: had_speed_camera(street, year) is true exactly when speed_cameras(street)
\* holds a row with installation_year <= year: false for every year below the
\* smallest installation year among the matches, true from a matched installation
\* year on; with the single row MARSA ROAD/2010 it is false for 2009 and true for
\* 2010.
C2_HadCameraIffInstalledByYear ==
    (CamReturned("had_speed_camera") /\ "installation_year" \in data.columns) =>
        LET found == speed_cameras(data, camCall.street)
            years == {data.rows[found[k]].installation_year : k \in DOMAIN found}
        IN  /\ ~Raised(camResult)
            /\ camResult.return <=> (\E y \in years : y <= camCall.year)
            /\ (\A y \in years : camCall.year < y) => ~camResult.return
            /\ (/\ Len(csv.rows) = 1
                /\ csv.rows[1].street_en = <<"M","A","R","S","A"," ","R","O","A","D">>
                /\ camCall.street = <<"M","a","r","s","a"," ","R","o","a","d">>)
               => (camResult.return <=> camCall.year >= 2010)

\* C2 witness: the table is the single row MARSA ROAD/2010 and had_speed_camera
\* has answered true for "Marsa Road" in 2010, the installation year itself.
C2_Witness ==
    /\ CamReturned("had_speed_camera")
    /\ Len(csv.rows) = 1
    /\ csv.rows[1].street_en = <<"M","A","R","S","A"," ","R","O","A","D">>
    /\ camCall.street = <<"M","a","r","s","a"," ","R","o","a","d">>
    /\ camCall.year = 2010
    /\ camResult = Return(TRUE)

\* C3: speed_cameras called with a row's own street_en text, as the file has it,
\* returns that row.
C3_RawStreetEnFindsItsRow ==
    CamReturned("speed_cameras") =>
        \A i \in DOMAIN csv.rows :
            csv.rows[i].street_en = camCall.street
                => \E k \in DOMAIN camResult.return : camResult.return[k] = i

\* The search text the street-specific normaliser would give: the base normaliser,
\* then every street-type word removed as a whole word, then the extra pass.
StreetTypeWordsRemoved(street) ==
    cam_extra_pass(strip(STREET_FIX_sub(cam_query_norm(street))))

\* C5 as stated: speed_cameras removes the street-type words triq, street, vjal,
\* avenue and road from the query and returns every row with a street column
\* containing the remaining text.
C5_StreetTypeWordsRemoved ==
    CamReturned("speed_cameras") =>
        camResult = Return(RowsContaining(data, StreetTypeWordsRemoved(camCall.street)))

\* A normalised text the extra pass leaves as it is, also behind "TRIQ " or before
\* " STREET".
CleanText(n) ==
    /\ ~In(<<" ","S","T","R","E","E","T">>, n)
    /\ ~In(<<"T","R","I","Q"," ">>, n)
    /\ ~OccursAt(n, <<"S","T","R","E","E","T">>, 1)
    /\ strip(n) = n

\* C5 amended: speed_cameras normalises the query with the base normaliser and
\* then removes only the literals " STREET" and "TRIQ "; vjal, avenue and road
\* stay.  For a query q whose normalised text holds neither literal, does not start
\* with STREET and has no blank at either end, the queries q, "Triq " + q and
\* q + " Street" all return every row with a street column containing q's
\* normalised text, street-type words included.
C5_OnlyTriqAndStreetLiteralsRemoved ==
    CamReturned("speed_cameras") =>
        \A q \in CamStreets :
            (/\ CleanText(cam_query_norm(q))
             /\ camCall.street \in {q, TriqPrefix \o q, q \o StreetSuffix})
            => camResult = Return(RowsContaining(data, cam_query_norm(q)))

\* C5 witness: "Triq Marsa Avenue" has been looked up in a table holding both
\* MARSA ROAD and Marsa Avenue, and only the avenue was returned.
C5_Witness ==
    /\ CamReturned("speed_cameras")
    /\ camCall.street = TriqPrefix \o <<"M","a","r","s","a"," ","A","v","e","n","u","e">>
    /\ Len(data.rows) = 2
    /\ data.rows[1].street_en = <<"M","A","R","S","A"," ","R","O","A","D">>
    /\ camResult = Return(<<2>>)

----------------------------------------------------------------------------
(* roadworks.py: dates and times *)

(* A datetime is [wall |-> w, tzinfo |-> tz]: w the wall-clock hour on a short     *)
(* time line; tz is <<o>> for a fixed offset of o hours east of UTC and <<>> for a *)
(* naive datetime (tzinfo is None).  An aware datetime denotes the instant w - o;  *)
(* aware datetimes compare by their instants.                                      *)
datetime(w, tz) == [wall |-> w, tzinfo |-> tz]
None == <<>>

Instant(dt) == dt.wall - dt.tzinfo[1]

\* a <= b for aware datetimes
dt_le(a, b) == Instant(a) <= Instant(b)

(* Europe/Malta on the time line: UTC+1, and UTC+2 (daylight saving) from the      *)
(* instant DstStartUtc up to the instant DstEndUtc.  Wall hour DstStartUtc + 1 is  *)
(* skipped when the clocks go forward and wall hour DstEndUtc + 1 comes twice when *)
(* they go back.                                                                   *)
DstStartUtc == 1
DstEndUtc   == 6
MaltaOffsetAt(instant) ==
    IF DstStartUtc <= instant /\ instant < DstEndUtc THEN 2 ELSE 1

\* The offsets under which wall hour w is a Malta local time.
MaltaOffsetsOf(w) == {o \in {1, 2} : MaltaOffsetAt(w - o) = o}

\* Faulty variant of tz_localize_Malta: the standard offset UTC+1 at every time of the year.
tz_localize_standard(dt) == Return(datetime(dt.wall, <<1>>))

\* pandas.to_datetime(ts).tz_localize('Europe/Malta') on a naive datetime.
tz_localize_Malta(dt) ==
    LET offs == MaltaOffsetsOf(dt.wall)
    IN  IF offs = {} THEN Raise("NonExistentTimeError")
        ELSE IF Cardinality(offs) > 1 THEN Raise("AmbiguousTimeError")
        ELSE Return(datetime(dt.wall, <<CHOOSE o \in offs : TRUE>>))

(* A str is [str |-> "iso", wall |-> w, tzinfo |-> tz] for the ISO 8601 text of    *)
(* wall hour w, with the offset o written out when tz is <<o>>, and                *)
(* [str |-> "text", text |-> t] for any text t that is no ISO 8601 timestamp.      *)
iso(w, tz) == [str |-> "iso", wall |-> w, tzinfo |-> tz]
text(t)    == [str |-> "text", text |-> t]

\* isinstance(x, str)
IsStr(x) == "str" \in DOMAIN x

\* datetime.fromisoformat(s)
fromisoformat(s) ==
    IF s.str = "iso" THEN Return(datetime(s.wall, s.tzinfo)) ELSE Raise("ValueError")

----------------------------------------------------------------------------
(* roadworks.py: the closure list *)

MaxFeatures == 2

AttrKeys == {"rw_LocalityName", "rw_StreetFullname", "rw_DateFrom", "rw_DateTo", "rw_id"}

Attributes(loc, street, from, to, id) ==
    [rw_LocalityName |-> loc, rw_StreetFullname |-> street,
     rw_DateFrom |-> from, rw_DateTo |-> to, rw_id |-> id]

Without(attr, key) == [k \in (DOMAIN attr) \ {key} |-> attr[k]]

Mosta  == Attributes(<<"I","L","-","M","O","S","T","A">>, <<"T","r","i","q"," ","l","-","G","h/","a","r","u","s","a"," ","t","a","l","-","M","o","s","t","a">>,
                     iso(3, <<2>>), iso(5, <<2>>), "a")
Xbiex  == Attributes(<<"T","a","'"," ","X","b","i","e","x">>, <<"X","a","t","t"," ","T","a","'"," ","X","b","i","e","x">>,
                     iso(4, <<0>>), iso(7, <<1>>), "b")
Sultan == Attributes(<<"H/","a","l"," ","Q","o","r","m","i">>, <<"T","r","i","q"," ","i","s","-"," ","S","u","l","t","a","n">>,
                     iso(0, <<1>>), iso(0, <<1>>), "c")

\* The 'attributes' objects a full-road-closures.json can hold: well-formed ones,
\* one lacking a key and one with a date that is no ISO 8601 text.
AttrChoices ==
    { Mosta, Xbiex, Sultan,
      Without(Mosta, "rw_DateTo"),
      [Xbiex EXCEPT !.rw_DateFrom = text("None")] }

FeatureChoices == SeqsUpTo(AttrChoices, MaxFeatures)

\* parse_roadworks_data raises KeyError for a missing key and ValueError for a date
\* fromisoformat cannot read.
parse_raises(attr) ==
    \/ ~(AttrKeys \subseteq DOMAIN attr)
    \/ Raised(fromisoformat(attr.rw_DateFrom))
    \/ Raised(fromisoformat(attr.rw_DateTo))

parse_roadworks_data(attr) ==
    [locality_name |-> parse_locality_name(attr.rw_LocalityName),
     street_name   |-> parse_street_name(attr.rw_StreetFullname),
     from_date     |-> fromisoformat(attr.rw_DateFrom).return,
     to_date       |-> fromisoformat(attr.rw_DateTo).return,
     id            |-> attr.rw_id]

\* Faulty variant of closure_matches: the window is open at to_date.
closure_matches_open_end(closure, locality, street, time_stamp) ==
    /\ In(locality, closure.locality_name)
    /\ In(street, closure.street_name)
    /\ dt_le(closure.from_date, time_stamp)
    /\ Instant(time_stamp) < Instant(closure.to_date)

\* The condition of the loop of had_roadworks on one closure.
closure_matches(closure, locality, street, time_stamp) ==
    /\ In(locality, closure.locality_name)
    /\ In(street, closure.street_name)
    /\ dt_le(closure.from_date, time_stamp)
    /\ dt_le(time_stamp, closure.to_date)

\* for closure in closures: ... return True; return False
RECURSIVE scan_closures(_, _, _, _, _)
scan_closures(list, i, locality, street, time_stamp) ==
    IF i > Len(list) THEN FALSE
    ELSE IF closure_matches(list[i], locality, street, time_stamp) THEN TRUE
    ELSE scan_closures(list, i + 1, locality, street, time_stamp)

\* Faulty variant of had_roadworks: a timestamp string that cannot be parsed is answered
\* False.
had_roadworks_unparsed_false(list, locality, street, time_stamp) ==
    LET loc  == rw_query_locality(locality)
        st   == rw_query_street(street)
        ts1  == IF IsStr(time_stamp) THEN fromisoformat(time_stamp)
                ELSE Return(time_stamp)
        ts2  == IF Raised(ts1) THEN ts1
                ELSE IF ts1.return.tzinfo = None THEN tz_localize_Malta(ts1.return)
                ELSE ts1
    IN  IF Raised(ts1) THEN Return(FALSE)
        ELSE IF Raised(ts2) THEN ts2
        ELSE Return(scan_closures(list, 1, loc, st, ts2.return))

\* had_roadworks(locality, street, time_stamp): its return value, or the exception
\* it raises.
had_roadworks(list, locality, street, time_stamp) ==
    LET loc  == rw_query_locality(locality)
        st   == rw_query_street(street)
        ts1  == IF IsStr(time_stamp) THEN fromisoformat(time_stamp)
                ELSE Return(time_stamp)
        ts2  == IF Raised(ts1) THEN ts1
                ELSE IF ts1.return.tzinfo = None THEN tz_localize_Malta(ts1.return)
                ELSE ts1
    IN  IF Raised(ts2) THEN ts2
        ELSE Return(scan_closures(list, 1, loc, st, ts2.return))

\* What the lookups are asked about.
RwLocalities == { <<"M","o","s","t","a">>, <<"T","a"," ","X","b","i","e","x">>, <<"h/","a","l"," ","q","o","r","m","i">> }
RwStreetCores == { <<"l","-","G","h","a","r","u","s","a">>, <<"l"," ","G","h","a","r","u","s","a">>, <<"X","A","T","T"," ","T","A","'"," ","X","B","I","E","X">>, <<"X","a","t","t"," ","T","a"," ","X","b","i","e","x">>,
                   <<"i","s","-"," ","S","u","l","t","a","n">> }
RwStreets ==
    RwStreetCores
      \cup { <<"T","r","i","q"," ">> \o c :
                c \in {<<"l","-","G","h","a","r","u","s","a">>, <<"l"," ","G","h","a","r","u","s","a">>} }
      \cup { <<"X","a","t","t"," ","T","a","'"," ","X","b","i","e","x"," ","r","o","a","d">>,
             <<"T","r","i","q"," ","i","s","-","S","u","l","t","a","n">> }
WallHours == 0..(DstEndUtc + 2)
RwTimes ==
    { datetime(w, tz) : w \in WallHours, tz \in {None, <<0>>, <<2>>} }
      \cup { iso(w, tz) : w \in {3, 7}, tz \in {None, <<1>>} }
      \cup { text("yesterday"), text("") }

InitRw ==
    /\ features \in FeatureChoices
    /\ closures = <<>>
    /\ rwIdx = 0
    /\ rwPc = "import"
    /\ rwCall = <<>>
    /\ rwResult = <<>>
    /\ NormIdle /\ CamIdle /\ WxIdle

\* Faulty variant of LoadEntry: a feature that cannot be parsed is skipped.
LoadEntry_skipping ==
    /\ rwPc = "import"
    /\ rwIdx < Len(features)
    /\ rwIdx' = rwIdx + 1
    /\ rwPc' = rwPc
    /\ closures' = IF parse_raises(features[rwIdx + 1]) THEN closures
                   ELSE Append(closures, parse_roadworks_data(features[rwIdx + 1]))
    /\ UNCHANGED <<features, rwCall, rwResult, normVars, camVars, wxVars>>

\* Module import, one turn of the loop: closures.append(parse_roadworks_data(...));
\* an exception ends the import.
LoadEntry ==
    /\ rwPc = "import"
    /\ rwIdx < Len(features)
    /\ rwIdx' = rwIdx + 1
    /\ IF parse_raises(features[rwIdx + 1])
       THEN rwPc' = "import_error" /\ closures' = closures
       ELSE rwPc' = rwPc /\ closures' = Append(closures, parse_roadworks_data(features[rwIdx + 1]))
    /\ UNCHANGED <<features, rwCall, rwResult, normVars, camVars, wxVars>>

\* Module import: the loop has run through every feature.
LoadEnd ==
    /\ rwPc = "import"
    /\ rwIdx = Len(features)
    /\ rwPc' = "ready"
    /\ UNCHANGED <<features, closures, rwIdx, rwCall, rwResult, normVars, camVars, wxVars>>

\* A call of had_roadworks, up to its return or its exception.
HadRoadworks(locality, street, time_stamp) ==
    /\ rwPc = "ready"
    /\ rwCall' = [locality |-> locality, street |-> street, time_stamp |-> time_stamp]
    /\ rwResult' = had_roadworks(closures, locality, street, time_stamp)
    /\ rwPc' = "returned"
    /\ UNCHANGED <<features, closures, rwIdx, normVars, camVars, wxVars>>

\* The caller has taken the result; the module is ready for the next call.
RwReturn ==
    /\ rwPc = "returned"
    /\ rwPc' = "ready"
    /\ rwCall' = <<>>
    /\ rwResult' = <<>>
    /\ UNCHANGED <<features, closures, rwIdx, normVars, camVars, wxVars>>

NextRw ==
    \/ LoadEntry
    \/ LoadEnd
    \/ \E locality \in RwLocalities, street \in RwStreets, time_stamp \in RwTimes :
          HadRoadworks(locality, street, time_stamp)
    \/ RwReturn

SpecRw == InitRw /\ [][NextRw]_vars

----------------------------------------------------------------------------
(* Claims about the closure lookup *)

RwReturned == rwPc = "returned"

IsAware(ts) == ~IsStr(ts) /\ ts.tzinfo # None

\* Some closure of the list holds the two texts and is in force at the instant.
ClosureAt(list, locality, street, instant) ==
    \E i \in DOMAIN list :
        /\ In(locality, list[i].locality_name)
        /\ In(street, list[i].street_name)
        /\ Instant(list[i].from_date) <= instant
        /\ instant <= Instant(list[i].to_date)

Reverse(list) == [i \in DOMAIN list |-> list[Len(list) + 1 - i]]

\* C1: for a timezone-aware timestamp t, had_roadworks is true exactly when some
\* closure holds the normalised locality in its locality_name, the normalised
\* street in its street_name, and from_date <= t <= to_date, both ends included;
\* the order of the list does not matter.
C1_TrueIffSomeClosureMatches ==
    (RwReturned /\ IsAware(rwCall.time_stamp)) =>
        /\ ~Raised(rwResult)
        /\ rwResult.return <=>
              ClosureAt(closures, rw_query_locality(rwCall.locality),
                        rw_query_street(rwCall.street), Instant(rwCall.time_stamp))
        /\ rwResult = had_roadworks(Reverse(closures), rwCall.locality,
                                    rwCall.street, rwCall.time_stamp)

\* C1 witness: the second of two closures matches, at the very instant of its
\* to_date, and the first does not; had_roadworks has answered true.
C1_Witness ==
    /\ RwReturned
    /\ IsAware(rwCall.time_stamp)
    /\ Len(closures) = 2
    /\ ~closure_matches(closures[1], rw_query_locality(rwCall.locality),
                        rw_query_street(rwCall.street), rwCall.time_stamp)
    /\ Instant(rwCall.time_stamp) = Instant(closures[2].to_date)
    /\ Instant(closures[2].from_date) < Instant(closures[2].to_date)
    /\ rwResult = Return(TRUE)

\* The upper-case base letter of a character: case and Maltese diacritics dropped.
FoldLetter ==
    LET base == <<"A","B","C","D","E","F","G","H","I","J","K","L","M",
                  "N","O","P","Q","R","S","T","U","V","W","X","Y","Z",
                  "C","G","H","Z">>
    IN  [c \in Chars |->
            IF c \in Range(UpperAlpha)
            THEN base[CHOOSE i \in DOMAIN UpperAlpha : UpperAlpha[i] = c]
            ELSE IF c \in Range(LowerAlpha)
            THEN base[CHOOSE i \in DOMAIN LowerAlpha : LowerAlpha[i] = c]
            ELSE c]

\* a and b are the same text up to case and Maltese diacritics.
SameLetters(a, b) ==
    /\ Len(a) = Len(b)
    /\ \A k \in DOMAIN a : FoldLetter[a[k]] = FoldLetter[b[k]]

\* q is, up to case and Maltese diacritics, a part of raw.
LettersOccurIn(q, raw) ==
    \E i \in 1..(Len(raw) + 1 - Len(q)) : SameLetters(q, SubSeq(raw, i, i + Len(q) - 1))

\* A NormalizedString: diacritics folded, punctuation removed, upper case.
NormalizedString(s) == upper(translate(translate(s, cam_MT_TABLE), PUNCT_TABLE))

\* The instant is in the closure window the feature's attributes give.
InWindow(attr, instant) ==
    /\ Instant(fromisoformat(attr.rw_DateFrom).return) <= instant
    /\ instant <= Instant(fromisoformat(attr.rw_DateTo).return)

\* C6 as stated: the query and the stored names are compared as NormalizedStrings,
\* punctuation removed, so a query that differs from a record's names only in
\* case, diacritics or punctuation matches the record inside its closure window.
C6_NamesComparedWithoutPunctuation ==
    (RwReturned /\ IsAware(rwCall.time_stamp)) =>
        \A i \in DOMAIN features :
            (/\ In(NormalizedString(rwCall.locality),
                   NormalizedString(features[i].rw_LocalityName))
             /\ In(strip(STREET_FIX_sub(NormalizedString(rwCall.street))),
                   NormalizedString(features[i].rw_StreetFullname))
             /\ InWindow(features[i], Instant(rwCall.time_stamp)))
            => rwResult = Return(TRUE)

\* The street texts made of core with one street-type word before or after it.
WithStreetWord(core) ==
    LET words == Range(STREET_FIX_words) \cup {upper(w) : w \in Range(STREET_FIX_words)}
                   \cup {<<UpperChar[Head(w)]>> \o Tail(w) : w \in Range(STREET_FIX_words)}
    IN  {core} \cup {w \o <<" ">> \o core : w \in words}
               \cup {core \o <<" ">> \o w : w \in words}

\* C6 amended: the query and the stored names are upper-cased and their Maltese
\* diacritics folded, but punctuation is kept.  A query matches a record inside its
\* closure window when its locality is, up to case and diacritics, a part of the
\* record's locality name, and its street is a text c, alone or with one street-type
\* word before or after it, where c is up to case and diacritics a part of the
\* record's street name, holds no street-type word and no blank at either end, and
\* the record's street name has no blank behind an article's hyphen.
C6_CaseAndDiacriticsOnly ==
    (RwReturned /\ IsAware(rwCall.time_stamp)) =>
        \A i \in DOMAIN features : \A core \in RwStreets :
            (/\ rwCall.street \in WithStreetWord(core)
             /\ \A k \in DOMAIN core : STREET_FIX_match(core, k) = 0
             /\ strip(core) = core
             /\ article_sub(features[i].rw_StreetFullname) = features[i].rw_StreetFullname
             /\ LettersOccurIn(rwCall.locality, features[i].rw_LocalityName)
             /\ LettersOccurIn(core, features[i].rw_StreetFullname)
             /\ InWindow(features[i], Instant(rwCall.time_stamp)))
            => rwResult = Return(TRUE)

\* C6 witness: "Mosta", "Triq l-Gharusa" has matched the record IL-MOSTA,
\* "Triq l-G(h-stroke)arusa tal-Mosta" inside its window.
C6_Witness ==
    /\ RwReturned
    /\ IsAware(rwCall.time_stamp)
    /\ rwCall.locality = <<"M","o","s","t","a">>
    /\ rwCall.street = <<"T","r","i","q"," ","l","-","G","h","a","r","u","s","a">>
    /\ features = <<Mosta>>
    /\ rwResult = Return(TRUE)

\* C8: a timestamp string that cannot be parsed makes had_roadworks raise
\* ValueError, whatever the locality, the street and the closure list are, and the
\* closure list stays what the import made it.
C8_UnparseableTimestampRaises ==
    (RwReturned /\ IsStr(rwCall.time_stamp) /\ rwCall.time_stamp.str = "text") =>
        /\ rwResult = Raise("ValueError")
        /\ closures = [i \in DOMAIN features |-> parse_roadworks_data(features[i])]

\* C8 witness: had_roadworks has raised ValueError on an empty closure list.
C8_Witness ==
    /\ RwReturned
    /\ rwCall.time_stamp = text("yesterday")
    /\ closures = <<>>
    /\ rwResult = Raise("ValueError")

\* The wall hour and the offset written in a timestamp argument, datetime or str.
WallOf(ts) == ts.wall
TzOf(ts)   == ts.tzinfo

\* C10: a naive timestamp (datetime or parsed string) that is an existing,
\* unambiguous Malta local time gets the Malta offset in effect at that time, and
\* the answer is the one for that instant; a timestamp with an offset of its own
\* is taken at its own instant.
C10_NaiveIsMaltaLocalTime ==
    (RwReturned /\ (IsStr(rwCall.time_stamp) => rwCall.time_stamp.str = "iso")) =>
        LET w   == WallOf(rwCall.time_stamp)
            tz  == TzOf(rwCall.time_stamp)
            loc == rw_query_locality(rwCall.locality)
            st  == rw_query_street(rwCall.street)
        IN  /\ tz # None =>
                  rwResult = Return(ClosureAt(closures, loc, st, w - tz[1]))
            /\ \A o \in {1, 2} :
                  (tz = None /\ MaltaOffsetsOf(w) = {o}) =>
                      rwResult = Return(ClosureAt(closures, loc, st, w - o))

\* C10 witness: a naive datetime in daylight-saving time has been answered true
\* for the Mosta closure at the instant of its to_date, two hours behind the wall
\* hour.
C10_Witness ==
    /\ RwReturned
    /\ rwCall.time_stamp = datetime(5, None)
    /\ MaltaOffsetsOf(5) = {2}
    /\ features = <<Mosta>>
    /\ Instant(closures[1].to_date) = 3
    /\ rwResult = Return(TRUE)

----------------------------------------------------------------------------
(* weather.py: rain queries on the meteostat gateway *)

MaxWeatherRows == 2

(* A precipitation cell is <<v>> for the number v and <<>> for NaN.  What a fetch  *)
(* gives is Raise(e) when the gateway fails and Return(rows) with the 'prcp'       *)
(* column of the frame otherwise.                                                  *)
NaN == <<>>
PrcpCells == {NaN, <<0>>, <<2>>}

\* Daily(stations, date, date), aggregated and fetched: at most the one day's row.
DailyOutcomes ==
    {Raise("GatewayError")} \cup {Return(rows) : rows \in SeqsUpTo(PrcpCells, 1)}

\* Hourly(stations, start, end), aggregated and fetched: a row per hour that has data.
HourlyOutcomes ==
    {Raise("GatewayError")}
      \cup {Return(rows) : rows \in SeqsUpTo(PrcpCells, MaxWeatherRows)}

\* Stations().region('MT').fetch()
StationsOutcomes == {Raise("GatewayError"), Return("MT stations")}

\* x > 0 for a cell: a comparison with NaN is false.
cell_gt_0(cell) == cell # NaN /\ cell[1] > 0

\* Series.sum(): NaN cells are skipped.
RECURSIVE prcp_sum(_)
prcp_sum(rows) ==
    IF rows = <<>> THEN 0
    ELSE (IF Head(rows) = NaN THEN 0 ELSE Head(rows)[1]) + prcp_sum(Tail(rows))

\* get_stations(): the stations fetched before, or else what the fetch gives now.
get_stations(cached, fetched) == IF cached = "None" THEN fetched ELSE Return(cached)

\* rain_on_date with the daily fetch giving `fetched`, behind get_stations giving `st`.
rain_on_date(st, fetched) ==
    IF Raised(st) THEN st
    ELSE IF Raised(fetched) THEN fetched
    ELSE IF fetched.return # <<>> THEN Return(cell_gt_0(fetched.return[1]))
    ELSE Return(FALSE)

\* Faulty variant of rain_before: the first hour's value is tested, not the sum.
rain_before_first_hour(st, fetched) ==
    IF Raised(st) THEN st
    ELSE IF Raised(fetched) THEN fetched
    ELSE IF fetched.return # <<>> THEN Return(cell_gt_0(fetched.return[1]))
    ELSE Return(FALSE)

\* rain_before with the hourly fetch giving `fetched`, behind get_stations giving `st`.
rain_before(st, fetched) ==
    IF Raised(st) THEN st
    ELSE IF Raised(fetched) THEN fetched
    ELSE IF fetched.return # <<>> THEN Return(prcp_sum(fetched.return) > 0)
    ELSE Return(FALSE)

\* end_time = datetime(date.year, date.month, date.day, time), in hours.
end_time(date, time) == 24 * date + time

WxDates   == {0, 1}
WxHours   == {0, 23}
WxLookback == {1, 24}

InitWx ==
    /\ stations = "None"
    /\ wxPc = "ready"
    /\ wxCall = <<>>
    /\ wxResult = <<>>
    /\ NormIdle /\ CamIdle /\ RwIdle

\* A call of rain_on_date(date), up to its return or its exception.
RainOnDate(date, stationsFetch, dailyFetch) ==
    /\ wxPc = "ready"
    /\ LET st == get_stations(stations, stationsFetch)
       IN  /\ stations' = IF Raised(st) THEN stations ELSE st.return
           /\ wxCall' = [fn |-> "rain_on_date", start |-> 24 * date, end |-> 24 * date,
                         stations |-> st,
                         fetched |-> IF Raised(st) THEN st ELSE dailyFetch]
           /\ wxResult' = rain_on_date(st, dailyFetch)
    /\ wxPc' = "returned"
    /\ UNCHANGED <<normVars, camVars, rwVars>>

\* A call of rain_before(date, time, hours), up to its return or its exception.
RainBefore(date, time, hours, stationsFetch, hourlyFetch) ==
    /\ wxPc = "ready"
    /\ LET st == get_stations(stations, stationsFetch)
       IN  /\ stations' = IF Raised(st) THEN stations ELSE st.return
           /\ wxCall' = [fn |-> "rain_before",
                         start |-> end_time(date, time) - hours,
                         end |-> end_time(date, time),
                         stations |-> st,
                         fetched |-> IF Raised(st) THEN st ELSE hourlyFetch]
           /\ wxResult' = rain_before(st, hourlyFetch)
    /\ wxPc' = "returned"
    /\ UNCHANGED <<normVars, camVars, rwVars>>

\* The caller has taken the result; the module is ready for the next call.
WxReturn ==
    /\ wxPc = "returned"
    /\ wxPc' = "ready"
    /\ wxCall' = <<>>
    /\ wxResult' = <<>>
    /\ UNCHANGED <<stations, normVars, camVars, rwVars>>

NextWx ==
    \/ \E date \in WxDates, s \in StationsOutcomes, f \in DailyOutcomes :
          RainOnDate(date, s, f)
    \/ \E date \in WxDates, time \in WxHours, hours \in WxLookback,
          s \in StationsOutcomes, f \in HourlyOutcomes :
          RainBefore(date, time, hours, s, f)
    \/ WxReturn

SpecWx == InitWx /\ [][NextWx]_vars

----------------------------------------------------------------------------
(* Claims about the rain queries *)

WxReturned == wxPc = "returned"

\* C9: rain_on_date and rain_before return false, and raise nothing, when the
\* gateway's fetch succeeds with no rows; with rows they return true exactly when
\* the precipitation (the day's value for rain_on_date, the sum of the hourly values
\* of the window [end_time - hours, end_time] for rain_before) is above 0; a gateway
\* failure reaches the caller as it is and is never answered false.
C9_EmptyIsNoRainFailurePropagates ==
    WxReturned =>
        /\ Raised(wxCall.fetched) => wxResult = wxCall.fetched
        /\ (~Raised(wxCall.fetched) /\ wxCall.fetched.return = <<>>)
              => wxResult = Return(FALSE)
        /\ (~Raised(wxCall.fetched) /\ wxCall.fetched.return # <<>>) =>
              LET rows == wxCall.fetched.return
              IN  IF wxCall.fn = "rain_on_date"
                  THEN wxResult = Return(rows[1] # NaN /\ rows[1][1] > 0)
                  ELSE wxResult =
                         Return(\E k \in DOMAIN rows : rows[k] # NaN /\ rows[k][1] > 0)
        /\ wxCall.fn = "rain_before" =>
              \E date \in WxDates, time \in WxHours, hours \in WxLookback :
                  /\ wxCall.end = 24 * date + time
                  /\ wxCall.start = wxCall.end - hours

\* C9 witness: rain_before has answered true on hourly rows whose first hour is dry
\* and whose second has rain.
C9_Witness ==
    /\ WxReturned
    /\ wxCall.fn = "rain_before"
    /\ wxCall.fetched = Return(<< <<0>>, <<2>> >>)
    /\ wxResult = Return(TRUE)

----------------------------------------------------------------------------
(* The import of both directories, with a few lookups on them *)

ImportCsvChoices ==
    { read_csv(columns, rows) :
        columns \in CsvColumnChoices,
        rows \in { <<CamRow(<<"M","A","R","S","A"," ","R","O","A","D">>, <<"T","R","I","Q"," ","I","L","-","M","A","R","S","A">>, <<>>, <<"M","A","R","S","A">>, 2010),
                     CamRow(<<"M","d","i","n","a"," ","R","o","a","d">>, <<"T","r","i","q"," ","l","-","I","m","d","i","n","a">>, <<>>, <<"H/","'","A","t","t","a","r","d">>, 2010)>> } }

InitImport ==
    /\ csv \in ImportCsvChoices
    /\ data = "unbound"
    /\ camPc = "import"
    /\ camCall = <<>>
    /\ camResult = <<>>
    /\ features \in FeatureChoices
    /\ closures = <<>>
    /\ rwIdx = 0
    /\ rwPc = "import"
    /\ rwCall = <<>>
    /\ rwResult = <<>>
    /\ NormIdle /\ WxIdle

NextImport ==
    \/ LoadSpeedCameraData
    \/ LoadEntry
    \/ LoadEnd
    \/ SpeedCameras(<<"M","d","i","n","a">>)
    \/ \E year \in {2009, 2010} : HadSpeedCamera(<<"M","d","i","n","a">>, year)
    \/ CamReturn
    \/ \E w \in {2, 4} : HadRoadworks(<<"M","o","s","t","a">>, <<"l","-","G","h","a","r","u","s","a">>, datetime(w, <<2>>))
    \/ RwReturn

SpecImport == InitImport /\ [][NextImport]_vars

RwCanQuery  == rwPc \in {"ready", "returned"}
CamCanQuery == camPc \in {"ready", "returned"}

\* C7 as stated: a dataset with a malformed feature or row (a required field is
\* missing) fails to load, for the closures and for the cameras alike, and where
\* lookups can run the directory holds every record of its dataset.
C7_MalformedDatasetNeverLoads ==
    /\ (\E i \in DOMAIN features : parse_raises(features[i])) => ~RwCanQuery
    /\ csv.columns # AllCols => ~CamCanQuery
    /\ RwCanQuery => Len(closures) = Len(features)
    /\ CamCanQuery => Len(data.rows) = Len(csv.rows)

\* C7 amended: the closure import fails as soon as a feature lacks a key or has an
\* unreadable date, and no lookup ever runs on the closures appended before; where
\* lookups can run, the closure list holds every feature of the dataset, parsed.
\* The camera import fails only when a name column is missing, and then no table
\* exists; a file without the installation_year column loads whole, every row
\* normalised, and had_speed_camera raises KeyError on it at lookup time.
C7_LookupsSeeTheWholeDataset ==
    /\ RwCanQuery =>
          /\ \A i \in DOMAIN features : ~parse_raises(features[i])
          /\ closures = [i \in DOMAIN features |-> parse_roadworks_data(features[i])]
    /\ ~RwCanQuery => rwCall = <<>> /\ rwResult = <<>>
    /\ rwPc = "import_error" =>
          /\ parse_raises(features[rwIdx])
          /\ Len(closures) = rwIdx - 1
    /\ CamCanQuery =>
          /\ NameCols \subseteq csv.columns
          /\ data = load_speed_camera_data(csv)
          /\ Len(data.rows) = Len(csv.rows)
    /\ ~CamCanQuery => data = "unbound" /\ camCall = <<>> /\ camResult = <<>>
    /\ camPc = "import_error" => ~(NameCols \subseteq csv.columns)
    /\ (/\ camPc = "returned"
        /\ camCall.fn = "had_speed_camera"
        /\ "installation_year" \notin csv.columns) => camResult = Raise("KeyError")

\* C7 witness: the closure import has failed on its second feature, after appending
\* the first, and no lookup has run.
C7_Witness ==
    /\ rwPc = "import_error"
    /\ rwIdx = 2
    /\ Len(closures) = 1
    /\ rwCall = <<>>

====
